---- MODULE Spec2Model ----
(***************************************************************************)
(* AlphaZeroNano (src/agent.py): the self-play / retrain / arena loop of   *)
(* the agent, as a state machine.  One Python frame is live at a time      *)
(* (the program is single threaded), so one program counter pc says where  *)
(* the interpreter stands; entry says which public method was called.      *)
(*                                                                         *)
(* The collaborators the agent is constructed with or calls are inputs:    *)
(*   - the Game (Game.py) is a small race game, chosen in Init by its      *)
(*     start position n0, by the value drawValue it reports for a draw and *)
(*     by its rules (whether a slot passes, whether overshooting is legal);*)
(*   - the evaluator's predict is the table predicts, chosen in Init (any  *)
(*     slot, or one slot per network and position for a deterministic      *)
(*     evaluator); the search apv_mcts may answer any policy target;       *)
(*   - a network's parameters are a stamp: the number of optimizer steps   *)
(*     applied to them since the initial network (deepcopy copies it).     *)
(***************************************************************************)
EXTENDS Integers, Sequences, FiniteSets, Bags, TLC

\* ------------------------------------------------------------- the state
VARIABLES
    n0, drawValue, rules,       \* self.game
    predicts,                   \* per network and position: the slots predict may rank first
    optimizer,                  \* self.optimizer: the network whose parameters it holds
    params, grad, nextNet,      \* the networks: parameter stamp, .grad set, next free id
    entry, pc, error, ret,      \* control, and what train returned
    \* train
    num_epochs, num_episodes, train_batch_size,
    current_network, old_network, train_episodes, epoch,
    \* self_play
    sp_left, sp_episodes, game_states,
    \* self_play and play_game
    game_state, player,
    illegal_applied,            \* an action outside getValidMoves was applied in this game
    \* retrain_nn / batch_episodes
    rn_network, dataloader, order, batch, steps,
    \* evaluate_networks
    network_a, network_b, num_games, threshold, network_a_wins, ev_left, ev_ret,
    network_a_result,
    \* history
    first,      \* what an earlier evaluate_networks call with the same arguments gave
    tally,      \* arena games so far, classified by the rules of the game
    visits,     \* per self-play episode: states passed, targets searched, outcome reads
    batches,    \* the mini-batches a direct caller drew from the loader
    log,        \* the statements of train's loop body run in this epoch
    work        \* how often each kind of work was done since the call

gameVars == <<n0, drawValue, rules>>
heapVars == <<optimizer, params, grad, nextNet>>
trainVars == <<num_epochs, num_episodes, train_batch_size,
               current_network, old_network, train_episodes, epoch>>
spVars == <<sp_left, sp_episodes, game_states, visits>>
playVars == <<game_state, player, illegal_applied>>
rnVars == <<rn_network, dataloader, order, batch, steps, batches>>
evVars == <<network_a, network_b, num_games, threshold, network_a_wins, ev_left,
            ev_ret, network_a_result, tally>>
vars == <<gameVars, predicts, first, heapVars, entry, pc, error, ret, trainVars,
          spVars, playVars, rnVars, evVars, log, work>>

\* ------------------------------------------------------------------ bounds
Target == 2          \* the race game ends once the counter reaches Target
MaxGames == 10       \* num_games of a direct evaluate_networks call
MaxEpochs == 2       \* num_epochs of a train call
MaxEpisodes == 2     \* num_episodes of a direct self_play call
TrainEpisodes == 1   \* num_episodes of a train call
MaxBatch == 2        \* batch sizes are 1..MaxBatch
MaxExamples == 3     \* length of the list given to a direct batch_episodes call

\* ------------------------------------------------- program constants
ArenaGames == 10                \* train: evaluate_networks(..., 10)
DefaultThreshold == <<6, 10>>   \* threshold=0.6, as the fraction 6/10

\* ------------------------------------------------------------- the Game
\* Two action slots: slot a adds a+1 to the counter.
ActionSize == 2
Actions == 0 .. (ActionSize - 1)
\* The value getGameEnded reports for a decided game (sign: who won).
WinValue == 2
\* A draw is reported as a small non-zero value; its sign is the game's choice.
DrawValues == {-1, 1}
Players == {1, -1}
NoState == [n |-> -1, turn |-> 0]
GameStates == [n : 0 .. (Target + ActionSize - 1), turn : Players]

\* The rules the game was built with:
\*   "race"    every slot is legal everywhere (overshooting draws the game);
\*   "strict"  a slot that would overshoot Target is not a valid move;
\*   "pass"    slot 0 passes: the counter stays, only the turn changes.
Rules == {"race", "strict", "pass"}

\* game.getInitBoard(): the start position, player 1 to move.
getInitBoard(start) == [n |-> start, turn |-> 1]

\* game_state.getNextState(game_state, player, action): a new state and the
\* next player; the state is never changed in place.
getNextState(state, p, action) ==
    IF rules = "pass" /\ action = 0
    THEN << [n |-> state.n, turn |-> -p], -p >>
    ELSE << [n |-> state.n + action + 1, turn |-> -p], -p >>

\* game.getValidMoves(state, player): the legal slots of a running game.
\* getNextState does not consult it.
getValidMoves(state) ==
    IF rules = "strict"
    THEN {a \in Actions : state.n + a + 1 <= Target}
    ELSE Actions

\* Who won a finished game by the rules: the player who brought the counter
\* to exactly Target (the player to move then has lost); 0 for an overshoot
\* (a draw).
Winner(state) == IF state.n = Target THEN -state.turn ELSE 0

\* game_state.getGameEnded(): 0 while the game runs, else the result seen
\* from the fixed reference seat, player 1.
getGameEnded(state, draw) ==
    IF state.n < Target THEN 0
    ELSE IF state.n = Target THEN Winner(state) * WinValue
    ELSE draw

\* self.game.getGameEnded(board=..., player=...): the same read, seen from
\* `player`.
getGameEndedFor(state, p, draw) == p * getGameEnded(state, draw)

\* ------------------------------------------------------------ evaluators
NoNet == -1
NetIds == 0 .. (MaxEpochs + 1)
NoParam == -1

\* An evaluator that may rank any slot first each time it is asked.
GreedyAny(net, state) == Actions

\* network.predict(state) followed by torch.max(policy, dim=-1): the index
\* of the largest policy entry.  The evaluator is an input: the slots its
\* table allows at the position.
GreedyActions(net, state) == predicts[net][state.n]

\* The positions a game can be asked to move from.
Running == 0 .. (Target - 1)
\* An evaluator about which nothing is known: any slot at any position.
AnyEvaluator == [n \in Running |-> Actions]
\* The deterministic evaluators: the same position gives the same slot.
DeterministicEvaluators == [Running -> {{a} : a \in Actions}]

\* ------------------------------------------------------------ the search
\* apv_mcts(...) returns a policy target: one weight per action slot, in
\* halves, summing to 1.  The search is an input: any such target.
PolicyTargets ==
    {p \in [1 .. ActionSize -> 0 .. 2] : p[1] + p[2] = 2}

\* np.random.choice(np.arange(getActionSize()), p=policy): any slot of
\* positive probability.
Sampled(policy) == {a \in Actions : policy[a + 1] > 0}

NoLoader == [data |-> <<>>, batch_size |-> 0]
NoTally == [win |-> 0, draw |-> 0, loss |-> 0]
NoWork == [self_play |-> 0, snapshot |-> 0, step |-> 0, game |-> 0]
NoRun == [wins |-> -1, ret |-> NoNet]

\* The agent after __init__, before any method is called.  The optimizer
\* was built over the parameters of network 0, the network train is given.
Constructed ==
    /\ n0 \in 0 .. Target
    /\ drawValue \in DrawValues
    /\ optimizer = 0
    /\ grad = [i \in NetIds |-> FALSE]
    /\ entry = "none" /\ pc = "idle" /\ error = "none" /\ ret = NoNet
    /\ num_epochs = 0 /\ num_episodes = 0 /\ train_batch_size = 0
    /\ current_network = NoNet /\ old_network = NoNet
    /\ train_episodes = <<>> /\ epoch = 0
    /\ sp_left = 0 /\ sp_episodes = <<>> /\ game_states = <<>>
    /\ game_state = NoState /\ player = 0 /\ illegal_applied = FALSE
    /\ rn_network = NoNet /\ dataloader = NoLoader /\ order = <<>>
    /\ batch = <<>> /\ steps = 0
    /\ network_a = NoNet /\ network_b = NoNet /\ num_games = 0
    /\ threshold = DefaultThreshold /\ network_a_wins = 0 /\ ev_left = 0
    /\ ev_ret = NoNet /\ network_a_result = 0 /\ first = NoRun
    /\ tally = NoTally /\ visits = <<>> /\ batches = <<>> /\ log = <<>>
    /\ work = NoWork

\* The race game with every slot legal, played by evaluators about which
\* nothing is known.
RaceAnyEvaluator ==
    /\ rules = "race"
    /\ predicts = [i \in NetIds |-> AnyEvaluator]

\* The networks that exist: ids below `count`, each with stamp 0.
Networks(count) ==
    /\ nextNet = count
    /\ params = [i \in NetIds |-> IF i < count THEN 0 ELSE NoParam]

\* A loop body that copies the network only after retraining it.
TrainBodySnapshotLate == <<"t_self_play", "t_retrain", "t_snapshot", "t_evaluate">>

\* The statements of the body of train's loop, in program order: the
\* self_play call, the deepcopy, the retrain_nn call, the
\* evaluate_networks call with its assignment.
TrainBody == <<"t_self_play", "t_snapshot", "t_retrain", "t_evaluate">>

\* Where control goes after statement `label` of the loop body.
Following(label) ==
    LET i == CHOOSE k \in 1 .. Len(TrainBody) : TrainBody[k] = label
    IN  IF i < Len(TrainBody) THEN TrainBody[i + 1] ELSE "t_loop"

\* --------------------------------------------------- evaluate_networks
Thresholds == {<<0, 1>>, <<1, 2>>, <<6, 10>>, <<7, 10>>, <<1, 1>>}

\* if network_a_result > 0
CountsAsWin(result) == result > 0

\* A gate that also promotes at equality.
PromotesAtEqual(wins, games, th) == wins * th[2] >= th[1] * games

\* win_rate = network_a_wins / num_games; win_rate > threshold.  The
\* quotient and the threshold are compared as fractions, which is what the
\* float comparison decides for counts and thresholds of this size.
Promotes(wins, games, th) == wins * th[2] > th[1] * games

\* The frame of evaluate_networks(a, b, games, th) on entry.
EnterEvaluate(a, b, games, th) ==
    /\ network_a' = a /\ network_b' = b
    /\ num_games' = games /\ threshold' = th
    /\ network_a_wins' = 0 /\ ev_left' = games
    /\ ev_ret' = NoNet /\ network_a_result' = 0 /\ tally' = NoTally
    /\ pc' = "ev_loop"

\* A caller outside the class calls evaluate_networks on two networks.
CallEvaluateNetworks ==
    /\ pc = "idle"
    /\ \E games \in 0 .. MaxGames, th \in Thresholds :
            EnterEvaluate(0, 1, games, th)
    /\ entry' = "evaluate_networks"
    /\ UNCHANGED <<gameVars, predicts, first,
                   heapVars, error, ret, trainVars, spVars, playVars,
                   rnVars, log, work>>

\* for _ in range(num_games): play_game(network_a, network_b) starts:
\* game_state = self.game.getInitBoard(); player = 1
PlayGameStart ==
    /\ pc = "ev_loop" /\ ev_left > 0
    /\ game_state' = getInitBoard(n0) /\ player' = 1
    /\ illegal_applied' = FALSE
    /\ pc' = "pg_while"
    /\ UNCHANGED <<gameVars, predicts, first,
                   heapVars, entry, error, ret, trainVars, spVars,
                   rnVars, evVars, log, work>>

\* A seating with the networks exchanged.
SeatedSwapped(p) == IF p = 1 THEN network_b ELSE network_a

\* if player == 1: network_a.predict(game_state) else: network_b.predict(...)
Seated(p) == IF p = 1 THEN network_a ELSE network_b

\* One pass of play_game's while loop: the evaluator seated at `player`
\* predicts, its greedy action is applied (no check against getValidMoves).
PlayGameMove ==
    /\ pc = "pg_while" /\ getGameEnded(game_state, drawValue) = 0
    /\ \E action \in GreedyActions(Seated(player), game_state) :
          LET next == getNextState(game_state, player, action)
          IN  /\ game_state' = next[1] /\ player' = next[2]
              /\ illegal_applied' =
                    (illegal_applied \/ action \notin getValidMoves(game_state))
    /\ UNCHANGED <<gameVars, predicts, first,
                   heapVars, entry, pc, error, ret, trainVars, spVars,
                   rnVars, evVars, log, work>>

\* if player == -1: return game_state.getGameEnded()
\* return game_state.getGameEnded()
PlayGameResult(state, p) ==
    IF p = -1 THEN getGameEnded(state, drawValue)
    ELSE getGameEnded(state, drawValue)

\* play_game returns; evaluate_networks binds network_a_result and tallies it.
PlayGameReturn ==
    /\ pc = "pg_while" /\ getGameEnded(game_state, drawValue) # 0
    /\ LET result == PlayGameResult(game_state, player)
           w == Winner(game_state)
       IN  /\ network_a_result' = result
           /\ network_a_wins' = IF CountsAsWin(result)
                                 THEN network_a_wins + 1 ELSE network_a_wins
           /\ tally' = [win  |-> tally.win + (IF w = 1 THEN 1 ELSE 0),
                        draw |-> tally.draw + (IF w = 0 THEN 1 ELSE 0),
                        loss |-> tally.loss + (IF w = -1 THEN 1 ELSE 0)]
    /\ ev_left' = ev_left - 1
    /\ game_state' = NoState /\ player' = 0
    /\ illegal_applied' = illegal_applied
    /\ pc' = "ev_loop"
    /\ work' = [work EXCEPT !.game = @ + 1]
    /\ UNCHANGED <<gameVars, predicts, first,
                   heapVars, entry, error, ret, trainVars, spVars,
                   rnVars, network_a, network_b, num_games, threshold, ev_ret, log>>

\* win_rate = network_a_wins / num_games and the two returns.
EvaluateReturn ==
    /\ pc = "ev_loop" /\ ev_left = 0
    /\ IF num_games = 0
       THEN /\ error' = "ZeroDivisionError" /\ pc' = "raised" /\ ev_ret' = ev_ret
       ELSE /\ ev_ret' = IF Promotes(network_a_wins, num_games, threshold)
                         THEN network_a ELSE network_b
            /\ pc' = IF entry = "train" THEN "t_assign" ELSE "done"
            /\ error' = error
    /\ UNCHANGED <<gameVars, predicts, first,
                   heapVars, entry, ret, trainVars, spVars, playVars,
                   rnVars, network_a, network_b, num_games, threshold,
                   network_a_wins, ev_left, network_a_result, tally, log, work>>

InitArena == Constructed /\ Networks(2) /\ RaceAnyEvaluator

NextArena ==
    \/ CallEvaluateNetworks
    \/ PlayGameStart
    \/ PlayGameMove
    \/ PlayGameReturn
    \/ EvaluateReturn

SpecArena == InitArena /\ [][NextArena]_vars

C8_TallyIsSeatWins ==
    /\ entry = "evaluate_networks" => network_a_wins = tally.win
    /\ (entry = "evaluate_networks" /\ pc = "done")
          => tally.win + tally.draw + tally.loss = num_games

\* ------------------------------------------------------------ self_play
\* game_states.append((game_state, policy))
Recorded(state, policy) == <<state, policy>>

\* Labelling that leaves out the last recorded state.
LabelledButLast(states, game_result) ==
    [i \in 1 .. (Len(states) - 1) |-> <<states[i][1], states[i][2], game_result>>]

\* for state, policy in game_states:
\*     train_episodes.append((state, policy, game_result))
Labelled(states, game_result) ==
    [i \in 1 .. Len(states) |-> <<states[i][1], states[i][2], game_result>>]

\* The frame of self_play(model, episodes) on entry: train_episodes = [].
EnterSelfPlay(episodes) ==
    /\ sp_left' = episodes /\ sp_episodes' = <<>> /\ game_states' = <<>>
    /\ visits' = <<>>
    /\ work' = [work EXCEPT !.self_play = @ + 1]
    /\ pc' = "sp_loop"

\* A caller outside the class calls self_play with network 0.
CallSelfPlay ==
    /\ pc = "idle"
    /\ \E episodes \in 0 .. MaxEpisodes : EnterSelfPlay(episodes)
    /\ entry' = "self_play"
    /\ UNCHANGED <<gameVars, predicts, first,
                   heapVars, error, ret, trainVars, playVars, rnVars,
                   evVars, log>>

\* An episode record that goes on from the one of the episode before.
EpisodeRecordKept(previous) == previous

\* game_states = []: the record of a new episode, whatever the record of
\* the episode before was.
EpisodeRecord(previous) == <<>>

\* for _ in range(num_episodes): game_states = [];
\* game_state = self.game.getInitBoard(); player = 1
EpisodeStart ==
    /\ pc = "sp_loop" /\ sp_left > 0
    /\ game_states' = EpisodeRecord(game_states)
    /\ game_state' = getInitBoard(n0) /\ player' = 1
    /\ illegal_applied' = FALSE
    /\ visits' = Append(visits, [path |-> <<getInitBoard(n0)>>, targets |-> <<>>,
                                 reads |-> 0, result |-> 0])
    /\ pc' = "sp_while"
    /\ UNCHANGED <<gameVars, predicts, first,
                   heapVars, entry, error, ret, trainVars, sp_left,
                   sp_episodes, rnVars, evVars, log, work>>

\* One pass of self_play's while loop: search, record, sample, move (no
\* check against getValidMoves).
SelfPlayMove ==
    /\ pc = "sp_while" /\ getGameEndedFor(game_state, player, drawValue) = 0
    /\ \E policy \in PolicyTargets : \E action \in Sampled(policy) :
          LET next == getNextState(game_state, player, action)
              e == Len(visits)
          IN  /\ game_states' = Append(game_states, Recorded(game_state, policy))
              /\ game_state' = next[1] /\ player' = next[2]
              /\ illegal_applied' =
                    (illegal_applied \/ action \notin getValidMoves(game_state))
              /\ visits' = [visits EXCEPT
                               ![e].path = Append(@, next[1]),
                               ![e].targets = Append(@, policy)]
    /\ UNCHANGED <<gameVars, predicts, first,
                   heapVars, entry, pc, error, ret, trainVars, sp_left,
                   sp_episodes, rnVars, evVars, log, work>>

\* The game is over: game_result = game_state.getGameEnded(), then every
\* recorded pair is appended with that result.
EpisodeEnd ==
    /\ pc = "sp_while" /\ getGameEndedFor(game_state, player, drawValue) # 0
    /\ LET game_result == getGameEnded(game_state, drawValue)
           e == Len(visits)
       IN  /\ sp_episodes' = sp_episodes \o Labelled(game_states, game_result)
           /\ visits' = [visits EXCEPT ![e].reads = @ + 1,
                                       ![e].result = game_result]
    /\ sp_left' = sp_left - 1
    /\ pc' = "sp_loop"
    /\ UNCHANGED <<gameVars, predicts, first,
                   heapVars, entry, error, ret, trainVars, game_states,
                   playVars, rnVars, evVars, log, work>>

\* return train_episodes.  Inside train the list is bound to train's
\* train_episodes; the frame's locals are gone.
SelfPlayReturn ==
    /\ pc = "sp_loop" /\ sp_left = 0
    /\ IF entry = "train"
       THEN /\ train_episodes' = sp_episodes
            /\ sp_episodes' = <<>> /\ game_states' = <<>> /\ visits' = <<>>
            /\ log' = Append(log, "self_play_done")
            /\ pc' = Following("t_self_play")
       ELSE /\ pc' = "done"
            /\ UNCHANGED <<train_episodes, sp_episodes, game_states, visits, log>>
    /\ game_state' = NoState /\ player' = 0
    /\ illegal_applied' = illegal_applied
    /\ UNCHANGED <<gameVars, predicts, first,
                   heapVars, entry, error, ret, num_epochs, num_episodes,
                   train_batch_size, current_network, old_network, epoch, sp_left,
                   rnVars, evVars, work>>

InitSelfPlay == Constructed /\ Networks(1) /\ RaceAnyEvaluator

NextSelfPlay ==
    \/ CallSelfPlay
    \/ EpisodeStart
    \/ SelfPlayMove
    \/ EpisodeEnd
    \/ SelfPlayReturn

SpecSelfPlay == InitSelfPlay /\ [][NextSelfPlay]_vars

\* The states of `path` at which the game was not over.
NonTerminal(path) == SelectSeq(path, LAMBDA s : s.n < Target)

\* The examples episode record v stands for: one per non-terminal state
\* passed, with the target searched there and the outcome read at the end.
ExamplesOf(v) ==
    [i \in 1 .. Len(NonTerminal(v.path)) |->
        <<NonTerminal(v.path)[i], v.targets[i], v.result>>]

RECURSIVE Concatenated(_)
Concatenated(vs) ==
    IF vs = <<>> THEN <<>>
    ELSE Concatenated(SubSeq(vs, 1, Len(vs) - 1)) \o ExamplesOf(vs[Len(vs)])

\* C6: two examples of one episode whose states have opposite players to
\* move carry outcome values that are additive inverses.
C6_OppositePerspectivesInverse ==
    (entry = "self_play" /\ pc = "sp_loop" /\ Len(game_states) > 0) =>
        LET k == Len(game_states)
            ex == SubSeq(sp_episodes, Len(sp_episodes) - k + 1, Len(sp_episodes))
        IN  \A i, j \in 1 .. k :
                ex[i][1].turn # ex[j][1].turn => ex[i][3] = -ex[j][3]

\* C7: an episode adds one example per non-terminal state passed, in play
\* order, each with the target searched for that state and the outcome that
\* was read once at the end; an episode that starts finished adds none;
\* self_play returns the episodes' examples concatenated in episode order.
C7_OneExamplePerVisitedState ==
    /\ (entry = "self_play" /\ pc = "sp_loop") =>
          /\ sp_episodes = Concatenated(visits)
          /\ \A e \in 1 .. Len(visits) :
                /\ visits[e].reads = 1
                /\ Len(visits[e].targets) = Len(NonTerminal(visits[e].path))
    /\ (entry = "self_play" /\ pc = "done") =>
          /\ error = "none"
          /\ sp_episodes = Concatenated(visits)
          /\ n0 = Target => sp_episodes = <<>>

\* Two episodes of two moves each were played and returned.
C7_Witness ==
    /\ entry = "self_play" /\ pc = "done"
    /\ Len(visits) = 2 /\ Len(sp_episodes) = 4
    /\ sp_episodes[1][1] # sp_episodes[2][1]

\* ------------------------------------------- batch_episodes, retrain_nn
\* torch.tensor(..., dtype=torch.float32) on one number: the nearest value
\* with a 24 bit significand (ties to even); exact up to 2^24.
Float32(x) ==
    IF -16777216 <= x /\ x <= 16777216 THEN x
    ELSE LET lo == 2 * (x \div 2)
         IN  IF x = lo THEN x ELSE IF lo % 4 = 0 THEN lo ELSE lo + 2

\* A state as a float32 tensor.
StateTensor(state) == [n |-> Float32(state.n), turn |-> Float32(state.turn)]

\* A policy target as a float32 tensor.
PolicyTensor(policy) == [a \in DOMAIN policy |-> Float32(policy[a])]

\* states, policies, results = zip(*train_data) and the three torch.tensor
\* calls: one tensor per field, row i from example i.
Tensors(train_data) ==
    [states   |-> [i \in 1 .. Len(train_data) |-> StateTensor(train_data[i][1])],
     policies |-> [i \in 1 .. Len(train_data) |-> PolicyTensor(train_data[i][2])],
     results  |-> [i \in 1 .. Len(train_data) |-> Float32(train_data[i][3])]]

\* A fetch that reads the outcomes in the reverse order of the other fields.
StackedApart(data, idx) ==
    [x_train      |-> [k \in 1 .. Len(idx) |-> data.states[idx[k]]],
     policy_train |-> [k \in 1 .. Len(idx) |-> data.policies[idx[k]]],
     value_train  |-> [k \in 1 .. Len(idx) |-> data.results[idx[Len(idx) + 1 - k]]]]

\* DataLoader over TensorDataset(states, policies, results): the mini-batch
\* for the sampled indices idx stacks row idx[k] of every tensor at place k.
Stacked(data, idx) ==
    [x_train      |-> [k \in 1 .. Len(idx) |-> data.states[idx[k]]],
     policy_train |-> [k \in 1 .. Len(idx) |-> data.policies[idx[k]]],
     value_train  |-> [k \in 1 .. Len(idx) |-> data.results[idx[k]]]]

\* DataLoader(..., shuffle=True): every order of the rows can be drawn.
Orders(count) ==
    {o \in [1 .. count -> 1 .. count] : \A i, j \in 1 .. count : o[i] = o[j] => i = j}

\* DataLoader(batch_size=...) without drop_last: the size of the next batch.
BatchLength(batch_size, remaining) ==
    IF batch_size < remaining THEN batch_size ELSE remaining

\* A batch_episodes that answers an empty list with an empty loader.
BatchEpisodesLenient(train_data, batch_size) ==
    /\ dataloader' = [data |-> Tensors(train_data), batch_size |-> batch_size]
    /\ pc' = "dl_iter"
    /\ error' = error

\* batch_episodes(train_data, batch_size), lines 236-244.  Unpacking the
\* zip of an empty list raises ValueError.
BatchEpisodes(train_data, batch_size) ==
    IF train_data = <<>>
    THEN /\ error' = "ValueError" /\ pc' = "raised"
         /\ UNCHANGED <<dataloader>>
    ELSE /\ dataloader' = [data |-> Tensors(train_data), batch_size |-> batch_size]
         /\ pc' = "dl_iter"
         /\ error' = error

\* Examples a direct caller may hand to batch_episodes.
SampleExamples ==
    { <<[n |-> 0, turn |-> 1], <<2, 0>>, WinValue>>,
      <<[n |-> 1, turn |-> -1], <<1, 1>>, -WinValue>>,
      <<[n |-> 1, turn |-> -1], <<0, 2>>, 1>> }

SampleLists == UNION {[1 .. k -> SampleExamples] : k \in 0 .. MaxExamples}

\* A caller outside the class calls batch_episodes; train_episodes holds
\* the list it passes.
CallBatchEpisodes ==
    /\ pc = "idle"
    /\ \E data \in SampleLists, size \in 1 .. MaxBatch :
          /\ train_episodes' = data
          /\ train_batch_size' = size
          /\ BatchEpisodes(data, size)
    /\ entry' = "batch_episodes"
    /\ order' = <<>> /\ batch' = <<>> /\ steps' = 0 /\ batches' = <<>>
    /\ UNCHANGED <<gameVars, predicts, first, heapVars, ret, num_epochs, num_episodes,
                   current_network, old_network, epoch, spVars, playVars,
                   rn_network, evVars, log, work>>

\* `for ... in dataloader` starts: the sampler draws the order of the epoch.
LoaderIter ==
    /\ pc = "dl_iter"
    /\ order' \in Orders(Len(dataloader.data.states))
    /\ pc' = "dl_next"
    /\ UNCHANGED <<gameVars, predicts, first,
                   heapVars, entry, error, ret, trainVars, spVars,
                   playVars, rn_network, dataloader, batch, steps, batches,
                   evVars, log, work>>

\* The direct caller draws the next mini-batch.
LoaderNext ==
    /\ pc = "dl_next" /\ entry = "batch_episodes" /\ order # <<>>
    /\ LET k == BatchLength(dataloader.batch_size, Len(order))
       IN  /\ batch' = Stacked(dataloader.data, SubSeq(order, 1, k))
           /\ order' = SubSeq(order, k + 1, Len(order))
           /\ batches' = Append(batches, Stacked(dataloader.data, SubSeq(order, 1, k)))
    /\ UNCHANGED <<gameVars, predicts, first,
                   heapVars, entry, pc, error, ret, trainVars, spVars,
                   playVars, rn_network, dataloader, steps, evVars, log, work>>

\* The loader is exhausted.
LoaderStop ==
    /\ pc = "dl_next" /\ entry = "batch_episodes" /\ order = <<>>
    /\ pc' = "done"
    /\ UNCHANGED <<gameVars, predicts, first,
                   heapVars, entry, error, ret, trainVars, spVars,
                   playVars, rnVars, evVars, log, work>>

\* One pass of retrain_nn's loop: the next mini-batch, predict, the two
\* losses, self.optimizer.zero_grad(), combined_loss.backward(),
\* self.optimizer.step().  backward leaves gradients on the parameters of
\* neural_network; zero_grad and step act on the parameters the optimizer
\* holds.  A step that finds no gradient there may still move them
\* (momentum) or leave them.
RetrainStep ==
    /\ pc = "dl_next" /\ entry = "train" /\ order # <<>>
    /\ LET k == BatchLength(dataloader.batch_size, Len(order))
       IN  /\ batch' = Stacked(dataloader.data, SubSeq(order, 1, k))
           /\ order' = SubSeq(order, k + 1, Len(order))
    /\ LET zeroed == [grad EXCEPT ![optimizer] = FALSE]
           backward == [zeroed EXCEPT ![rn_network] = TRUE]
           stepped == [params EXCEPT ![optimizer] = @ + 1]
       IN  /\ grad' = backward
           /\ IF backward[optimizer]
              THEN params' = stepped
              ELSE params' \in {params, stepped}
    /\ steps' = steps + 1
    /\ work' = [work EXCEPT !.step = @ + 1]
    /\ UNCHANGED <<gameVars, predicts, first,
                   optimizer, nextNet, entry, pc, error, ret, trainVars,
                   spVars, playVars, rn_network, dataloader, batches, evVars, log>>

\* retrain_nn returns (None); its locals are gone.
RetrainReturn ==
    /\ pc = "dl_next" /\ entry = "train" /\ order = <<>>
    /\ rn_network' = NoNet /\ dataloader' = NoLoader /\ batch' = <<>> /\ steps' = 0
    /\ log' = Append(log, "retrain_done")
    /\ pc' = Following("t_retrain")
    /\ UNCHANGED <<gameVars, predicts, first,
                   heapVars, entry, error, ret, trainVars, spVars,
                   playVars, order, batches, evVars, work>>

InitBatch == Constructed /\ Networks(1) /\ RaceAnyEvaluator

NextBatch ==
    \/ CallBatchEpisodes
    \/ LoaderIter
    \/ LoaderNext
    \/ LoaderStop

SpecBatch == InitBatch /\ [][NextBatch]_vars

\* How often x occurs in seq.
Count(seq, x) == Cardinality({i \in 1 .. Len(seq) : seq[i] = x})

\* The (state, policy, outcome) rows of the mini-batches drawn so far.
RECURSIVE Rows(_)
Rows(bs) ==
    IF bs = <<>> THEN <<>>
    ELSE LET b == bs[Len(bs)]
         IN  Rows(SubSeq(bs, 1, Len(bs) - 1)) \o
             [k \in 1 .. Len(b.x_train) |->
                 <<b.x_train[k], b.policy_train[k], b.value_train[k]>>]

\* The input examples, as rows of tensors.
InputRows ==
    [i \in 1 .. Len(train_episodes) |->
        <<StateTensor(train_episodes[i][1]), PolicyTensor(train_episodes[i][2]),
          Float32(train_episodes[i][3])>>]

\* C10: the mini-batches hold every input example exactly once, mini-batch
\* k has min(batch_size, examples left) rows, and the three fields of a row
\* come from one input example.
C10_BatchesPartitionExamples ==
    entry = "batch_episodes" =>
        /\ \A r \in {Rows(batches)[i] : i \in 1 .. Len(Rows(batches))} :
              Count(Rows(batches), r) <= Count(InputRows, r)
        /\ \A k \in 1 .. Len(batches) :
              LET left == Len(train_episodes) - (k - 1) * train_batch_size
                  size == IF train_batch_size < left THEN train_batch_size ELSE left
              IN  /\ Len(batches[k].x_train) = size
                  /\ Len(batches[k].policy_train) = size
                  /\ Len(batches[k].value_train) = size
        /\ pc = "done" =>
              /\ Len(Rows(batches)) = Len(train_episodes)
              /\ \A i \in 1 .. Len(InputRows) :
                    Count(Rows(batches), InputRows[i]) = Count(InputRows, InputRows[i])

\* Three distinct examples went through as a full and a partial mini-batch,
\* in an order that is not the input's.
C10_Witness ==
    /\ entry = "batch_episodes" /\ pc = "done"
    /\ Len(train_episodes) = 3 /\ train_batch_size = 2 /\ Len(batches) = 2
    /\ Cardinality({train_episodes[i] : i \in 1 .. 3}) = 3
    /\ Rows(batches)[1] # InputRows[1]

\* ---------------------------------------------------------------- train
\* A loop that runs one pass too many.
LoopContinuesInclusive == epoch <= num_epochs

\* for _ in range(num_epochs): epoch counts the passes started.
LoopContinues == epoch < num_epochs

\* A snapshot that is the network itself, not a copy.
SnapshotAlias(net) == net

\* copy.deepcopy(current_network): a new network object.
Snapshot(net) == nextNet

\* Carrying the challenger forward whatever the arena said.
CarriedChallenger == current_network

\* current_network = self.evaluate_networks(...): the returned handle.
Carried == ev_ret

\* A caller outside the class calls train with network 0:
\* current_network = neural_network.
CallTrain ==
    /\ pc = "idle"
    /\ \E epochs \in 0 .. MaxEpochs, episodes \in 0 .. TrainEpisodes,
          size \in 1 .. MaxBatch :
          /\ num_epochs' = epochs /\ num_episodes' = episodes
          /\ train_batch_size' = size
    /\ current_network' = 0
    /\ epoch' = 0
    /\ entry' = "train" /\ pc' = "t_loop"
    /\ UNCHANGED <<gameVars, predicts, first,
                   heapVars, error, ret, old_network, train_episodes,
                   spVars, playVars, rnVars, evVars, log, work>>

\* The loop head starts the next pass.
TrainLoop ==
    /\ pc = "t_loop" /\ LoopContinues
    /\ epoch' = epoch + 1
    /\ log' = <<>>
    /\ pc' = TrainBody[1]
    /\ UNCHANGED <<gameVars, predicts, first,
                   heapVars, entry, error, ret, num_epochs, num_episodes,
                   train_batch_size, current_network, old_network, train_episodes,
                   spVars, playVars, rnVars, evVars, work>>

\* train_episodes = self.self_play(model=current_network, ...): the call.
TrainCallSelfPlay ==
    /\ pc = "t_self_play"
    /\ EnterSelfPlay(num_episodes)
    /\ log' = Append(log, "self_play")
    /\ UNCHANGED <<gameVars, predicts, first,
                   heapVars, entry, error, ret, trainVars, playVars,
                   rnVars, evVars>>

\* old_network = copy.deepcopy(current_network)
TrainSnapshot ==
    /\ pc = "t_snapshot"
    /\ LET copy == Snapshot(current_network)
       IN  /\ old_network' = copy
           /\ params' = [params EXCEPT ![copy] = params[current_network]]
           /\ grad' = [grad EXCEPT ![copy] = FALSE]
    /\ nextNet' = nextNet + 1
    /\ work' = [work EXCEPT !.snapshot = @ + 1]
    /\ log' = Append(log, "snapshot")
    /\ pc' = Following("t_snapshot")
    /\ UNCHANGED <<gameVars, predicts, first,
                   optimizer, entry, error, ret, num_epochs, num_episodes,
                   train_batch_size, current_network, train_episodes, epoch,
                   spVars, playVars, rnVars, evVars>>

\* self.retrain_nn(neural_network=current_network, train_data=train_episodes,
\* train_batch_size=...): the call, up to the loader batch_episodes returns.
TrainCallRetrain ==
    /\ pc = "t_retrain"
    /\ rn_network' = current_network
    /\ BatchEpisodes(train_episodes, train_batch_size)
    /\ order' = <<>> /\ batch' = <<>> /\ steps' = 0
    /\ log' = Append(log, "retrain")
    /\ UNCHANGED <<gameVars, predicts, first,
                   heapVars, entry, ret, trainVars, spVars, playVars,
                   batches, evVars, work>>

\* self.evaluate_networks(current_network, old_network, 10): the call.
TrainCallEvaluate ==
    /\ pc = "t_evaluate"
    /\ EnterEvaluate(current_network, old_network, ArenaGames, DefaultThreshold)
    /\ log' = Append(log, "arena")
    /\ UNCHANGED <<gameVars, predicts, first,
                   heapVars, entry, error, ret, trainVars, spVars,
                   playVars, rnVars, work>>

\* current_network = <the handle evaluate_networks returned>
TrainAssign ==
    /\ pc = "t_assign"
    /\ current_network' = Carried
    /\ log' = log \o <<"arena_done", "carry">>
    /\ pc' = Following("t_evaluate")
    /\ UNCHANGED <<gameVars, predicts, first,
                   heapVars, entry, error, ret, num_epochs, num_episodes,
                   train_batch_size, old_network, train_episodes, epoch, spVars,
                   playVars, rnVars, evVars, work>>

\* return current_network
TrainReturn ==
    /\ pc = "t_loop" /\ ~LoopContinues
    /\ ret' = current_network
    /\ pc' = "done"
    /\ UNCHANGED <<gameVars, predicts, first,
                   heapVars, entry, error, trainVars, spVars, playVars,
                   rnVars, evVars, log, work>>

\* train is run on games that are at most one move from their end.
InitTrain == Constructed /\ Networks(1) /\ RaceAnyEvaluator /\ n0 >= Target - 1

NextTrain ==
    \/ CallTrain
    \/ TrainLoop
    \/ TrainCallSelfPlay
    \/ EpisodeStart
    \/ SelfPlayMove
    \/ EpisodeEnd
    \/ SelfPlayReturn
    \/ TrainSnapshot
    \/ TrainCallRetrain
    \/ LoaderIter
    \/ RetrainStep
    \/ RetrainReturn
    \/ TrainCallEvaluate
    \/ PlayGameStart
    \/ PlayGameMove
    \/ PlayGameReturn
    \/ EvaluateReturn
    \/ TrainAssign
    \/ TrainReturn

SpecTrain == InitTrain /\ [][NextTrain]_vars

IsPrefix(s, t) == Len(s) <= Len(t) /\ s = SubSeq(t, 1, Len(s))

\* C2: the incumbent of an epoch is a separate object that holds the
\* current evaluator's parameters from before the epoch's retraining, and no
\* optimizer step ever changes the parameters of a snapshot.
C2_IncumbentIsFrozenCopy ==
    /\ []((entry = "train" /\ pc = "dl_iter") =>
            /\ old_network \in 1 .. (nextNet - 1)
            /\ old_network # current_network
            /\ params[old_network] = params[current_network])
    /\ []((entry = "train" /\ pc \in {"ev_loop", "pg_while", "t_assign"}) =>
            /\ network_b = old_network
            /\ network_b # network_a)
    /\ [][\A s \in 1 .. (nextNet - 1) : params'[s] = params[s]]_vars

\* An arena game between a retrained challenger and its older snapshot.
C2_Witness ==
    /\ entry = "train" /\ pc = "pg_while"
    /\ network_b = old_network
    /\ params[network_a] > params[network_b]

\* C3: every optimizer step of retrain_nn updates the parameters of the
\* network passed as neural_network, the challenger of the epoch.
C3_StepUpdatesChallenger ==
    [][steps' = steps + 1 => params'[rn_network] = params[rn_network] + 1]_vars

\* C4: after every epoch the current evaluator is the handle the epoch's
\* arena returned, one of that epoch's challenger and incumbent, and train
\* returns the handle the last arena selected.
C4_WinnerCarriedForward ==
    entry = "train" =>
        /\ (pc = "t_loop" /\ epoch > 0) =>
              /\ current_network = ev_ret
              /\ ev_ret \in {network_a, network_b}
              /\ network_a # network_b
              /\ network_b = old_network
        /\ (pc = "done" /\ num_epochs > 0) => ret = ev_ret

\* train returned the snapshot that the last of two arenas kept.
C4_Witness ==
    /\ entry = "train" /\ pc = "done" /\ num_epochs = 2
    /\ ret = old_network /\ ret # network_a

\* The order of an epoch in the program.
ProgramOrder ==
    <<"self_play", "self_play_done", "snapshot", "retrain", "retrain_done",
      "arena", "arena_done", "carry">>

\* The order of an epoch with the snapshot first.
SnapshotFirstOrder ==
    <<"snapshot", "self_play", "self_play_done", "retrain", "retrain_done",
      "arena", "arena_done", "carry">>

\* C5 as stated: in every epoch the snapshot comes first, then self-play,
\* retraining, the arena and the carry-forward, each finished before the
\* next starts, and an epoch starts only after the one before it is decided.
C5_SnapshotFirst ==
    entry = "train" =>
        /\ IsPrefix(log, SnapshotFirstOrder)
        /\ (pc = "t_loop" /\ epoch > 0) => log = SnapshotFirstOrder

\* C5 amended: in every epoch self-play comes first, then the snapshot,
\* retraining, the arena and the carry-forward, each finished before the
\* next starts, and an epoch starts only after the one before it is decided.
C5_SelfPlayFirst ==
    entry = "train" =>
        /\ IsPrefix(log, ProgramOrder)
        /\ (pc = "t_loop" /\ epoch > 0) => log = ProgramOrder

\* The second epoch ran through all its steps.
C5_Witness ==
    /\ entry = "train" /\ pc = "t_loop" /\ epoch = 2 /\ log = ProgramOrder

\* C9: train with num_epochs = 0 returns the network it was given, with its
\* parameters unchanged, and does no self-play, retraining step, snapshot or
\* arena game.
C9_ZeroEpochsIdentity ==
    (entry = "train" /\ num_epochs = 0) =>
        /\ work = NoWork
        /\ nextNet = 1 /\ params[0] = 0
        /\ current_network = 0
        /\ pc = "done" => ret = 0

\* train(num_epochs = 0) has returned.
C9_Witness ==
    /\ entry = "train" /\ num_epochs = 0 /\ pc = "done" /\ ret = 0

\* C11: as its docstring says, evaluate_networks returns the second network,
\* network_b, if it beats the first, network_a, beyond the threshold win rate.
C11_SecondReturnedIfItBeatsFirst ==
    (entry = "evaluate_networks" /\ pc = "done") =>
        (tally.loss * threshold[2] > threshold[1] * num_games
            => ev_ret = network_b)

\* ------------------------------------------------ games that need not end
\* The arena over a game whose slot 0 may be a pass.  The interpreter keeps
\* running the loop it is in: a step that can be taken is taken.
InitArenaPass ==
    /\ Constructed /\ Networks(2)
    /\ rules \in {"race", "pass"}
    /\ predicts = [i \in NetIds |-> AnyEvaluator]

SpecArenaPass == InitArenaPass /\ [][NextArena]_vars /\ WF_vars(NextArena)

\* C12: every arena game reaches a terminal state or is stopped with a
\* NonTerminatingGameError; play_game does not loop forever.
C12_GameEndsOrIsStopped ==
    (pc = "pg_while") ~>
        (getGameEnded(game_state, drawValue) # 0
            \/ error = "NonTerminatingGameError")

\* ------------------------------------------------ games with illegal slots
\* Self-play and the arena over a game that may declare overshooting slots
\* illegal.
InitGamesStrict ==
    /\ Constructed /\ Networks(2)
    /\ rules \in {"race", "strict"}
    /\ predicts = [i \in NetIds |-> AnyEvaluator]

NextGamesStrict == NextArena \/ NextSelfPlay

SpecGamesStrict == InitGamesStrict /\ [][NextGamesStrict]_vars

\* C13: no action outside the legal set of the current state is ever
\* applied to the game, in self-play or in the arena.
C13_NoIllegalActionApplied == ~illegal_applied

\* ------------------------------------------- deterministic evaluators
\* The same call made again by the caller once the first has returned.
CallAgain ==
    /\ pc = "done" /\ entry = "evaluate_networks" /\ first = NoRun
    /\ first' = [wins |-> network_a_wins, ret |-> ev_ret]
    /\ EnterEvaluate(network_a, network_b, num_games, threshold)
    /\ UNCHANGED <<gameVars, predicts, heapVars, entry, error, ret, trainVars,
                   spVars, playVars, rnVars, log, work>>

\* Two networks whose predict is a function of the position.
InitArenaDeterministic ==
    /\ Constructed /\ Networks(2)
    /\ rules \in {"race", "pass"}
    /\ \E ta \in DeterministicEvaluators, tb \in DeterministicEvaluators :
          predicts = [i \in NetIds |-> IF i = 1 THEN tb ELSE ta]

NextArenaDeterministic == NextArena \/ CallAgain

SpecArenaDeterministic == InitArenaDeterministic /\ [][NextArenaDeterministic]_vars

\* C14: with deterministic evaluators and a deterministic game, a second
\* run of evaluate_networks with the same networks and num_games gives the
\* same challenger win tally and returns the same network.
C14_SecondRunAgrees ==
    (entry = "evaluate_networks" /\ pc = "done" /\ first # NoRun) =>
        /\ network_a_wins = first.wins
        /\ ev_ret = first.ret

C14_Witness ==
    /\ entry = "evaluate_networks" /\ pc = "done" /\ first # NoRun
    /\ num_games >= 2 /\ first.wins = num_games /\ first.ret = network_a

\* C15: an arena game starts with player 1 to move and network_a seated as
\* player 1; each action applied is a greedy action of the evaluator seated
\* at the player to move (network_a for player 1, network_b otherwise); and
\* the value play_game returns is the terminal read of the final state,
\* whoever is to move there.
C15_SeatsGreedyOneRead ==
    [][ /\ (pc = "ev_loop" /\ pc' = "pg_while") =>
              game_state' = [n |-> n0, turn |-> 1] /\ player' = 1
        /\ (pc = "pg_while" /\ pc' = "pg_while") =>
              \E action \in predicts[IF game_state.turn = 1 THEN network_a
                                     ELSE network_b][game_state.n] :
                    game_state' = getNextState(game_state, game_state.turn, action)[1]
        /\ (pc = "pg_while" /\ pc' = "ev_loop") =>
              network_a_result' = getGameEnded(game_state, drawValue)
      ]_vars

\* A game between two evaluators that differ was played to the end and won
\* by the challenger.
C15_Witness ==
    /\ entry = "evaluate_networks" /\ pc = "ev_loop" /\ work.game >= 1
    /\ predicts[network_a] # predicts[network_b]
    /\ network_a_result = WinValue

\* C17: with deterministic evaluators every game of one call is the same
\* game, so the challenger's win tally is 0 or num_games; and for a
\* threshold below 1 the challenger is returned exactly when it wins that
\* game as player 1.
C17_AllOrNothing ==
    (entry = "evaluate_networks" /\ pc = "done") =>
        /\ network_a_wins \in {0, num_games}
        /\ threshold[1] < threshold[2] =>
              (ev_ret = network_a <=> tally.win = num_games)

\* C16: self-play episodes are independent: every episode starts from the
\* game's initial state with player 1 to move and an empty episode record,
\* and no step of self_play changes a network's parameters or the examples
\* already collected from earlier episodes.
C16_EpisodesIndependent ==
    [][ /\ (pc = "sp_loop" /\ pc' = "sp_while") =>
              /\ game_state' = [n |-> n0, turn |-> 1] /\ player' = 1
              /\ game_states' = <<>>
        /\ (entry = "self_play" /\ entry' = "self_play") =>
              /\ params' = params
              /\ IsPrefix(sp_episodes, sp_episodes')
      ]_vars

\* A second episode has just started after one that gave examples.
C16_Witness ==
    /\ entry = "self_play" /\ pc = "sp_while" /\ Len(visits) >= 2
    /\ sp_episodes # <<>> /\ game_states = <<>>
    /\ game_state = [n |-> n0, turn |-> 1]

\* `label` is among the statements train has run in this epoch.
InLog(label) == \E i \in 1 .. Len(log) : log[i] = label

\* C18: an epoch's self-play yields an empty example list exactly when
\* num_episodes is 0 or the game starts in a terminal state; then
\* batch_episodes fails on the empty list: retrain_nn has raised before any
\* optimizer step of its own, the arena of that epoch has not run and train
\* has returned nothing.
C18_EmptyExamplesAbortTrain ==
    /\ (entry = "train" /\ InLog("self_play_done")) =>
          (train_episodes = <<>>
              <=> (num_episodes = 0
                    \/ getGameEnded(getInitBoard(n0), drawValue) # 0))
    /\ (entry = "train" /\ InLog("retrain") /\ train_episodes = <<>>) =>
          /\ pc = "raised" /\ error = "ValueError"
          /\ steps = 0 /\ work.step = 0
          /\ ~InLog("arena") /\ work.game = 0
          /\ ret = NoNet

\* train has aborted on a game that starts in a terminal state.
C18_Witness ==
    /\ entry = "train" /\ pc = "raised" /\ error = "ValueError"
    /\ num_episodes > 0 /\ getGameEnded(getInitBoard(n0), drawValue) # 0
    /\ InLog("retrain") /\ work.snapshot = 1

====
